---- MODULE Spec2Model ----
(***************************************************************************)
(* The `Array` trait of tinyvec (src/array.rs) and its conformances for    *)
(* the primitive array types [T; $len] generated by impl_array_for_len!.   *)
(*                                                                         *)
(* Two instances of one shape [T; shape] are modelled, together with the   *)
(* slices handed out by slice() and slice_mut(), the borrows that keep     *)
(* those slices alive, and element stores made through a unique slice.     *)
(***************************************************************************)
EXTENDS Integers, FiniteSets, Bags, TLC

\* Largest array length explored by Spec, and largest index a store attempts.
MaxLen == 3

\* Largest number of slices outstanding at one time.
MaxViews == 2

\* <T as Default>::default() for the numeric element type explored.
Default == 0

\* Values of the element type T that are explored.
Items == {Default, 7}

\* The two separately constructed instances.
Insts == {"a", "b"}

\* A mis-typed length list: the run 1..33 is carried on to 34.
LensOffByOne ==
  {0} \cup (1 .. 34) \cup {64, 128, 256, 512, 1024, 2048, 4096}

\* The lengths the macro is invoked with, as written in the invocation.
Lens ==
  { 0,
    1, 2, 3, 4, 5, 6, 7, 8, 9, 10, 11, 12, 13, 14, 15, 16,
    17, 18, 19, 20, 21, 22, 23, 24, 25, 26, 27, 28, 29, 30, 31, 32,
    33,
    64, 128, 256, 512, 1024, 2048, 4096 }

\* const CAPACITY: usize = $len;
CAPACITY(len) == len

\* The values of the type [T; len]: len slots, each holding a T.
ArrayType(len) == [0 .. (len - 1) -> Items]

\* The array every slot of which is T::default().
DefaultArray(len) == [j \in 0 .. (len - 1) |-> Default]

VARIABLES
  shape,     \* $len of the array type both instances have
  ctor,      \* how each instance was constructed: "default" or "literal"
  data,      \* the storage owned by each instance
  views,     \* bag of the slices whose borrow is still alive
  hist,      \* the last store made through a unique slice, or NoWrite
  panicked   \* "none", or the operation that panicked

vars == <<shape, ctor, data, views, hist, panicked>>

\* The outcome of a call that unwinds instead of returning a slice.
Panic == [panic |-> TRUE]

NoWrite == [owner |-> "none"]

\* A slice: a pointer to slot `off` of the storage of instance `base`, and a length.
View(base, mut, off, len) ==
  [base |-> base, mut |-> mut, off |-> off, len |-> len]

\* `&self[1..]`: the slice without its first slot; out of range for len 0.
slice_tail(inst, len) ==
  IF 1 > len THEN Panic ELSE View(inst, FALSE, 1, len - 1)

\* A slice over one shared static buffer instead of over self.
slice_static(inst, len) == View("a", FALSE, 0, len)

\* fn slice(&self) -> &[T] { &*self }
slice(inst, len) == View(inst, FALSE, 0, len)

\* `&mut self[1..]`.
slice_mut_tail(inst, len) ==
  IF 1 > len THEN Panic ELSE View(inst, TRUE, 1, len - 1)

\* A unique slice built with one slot too many.
slice_mut_long(inst, len) == View(inst, TRUE, 0, len + 1)

\* A unique slice over one shared static buffer instead of over self.
slice_mut_static(inst, len) == View("a", TRUE, 0, len)

\* fn slice_mut(&mut self) -> &mut [T] { &mut *self }
slice_mut(inst, len) == View(inst, TRUE, 0, len)

\* The returned slice s lives as long as the borrow of the receiver `of`.
Borrow(of, s) == [of |-> of, s |-> s]

\* The borrows of `inst` that are alive.
BorrowsOf(inst) == {b \in BagToSet(views) : b.of = inst}

\* How many borrows of `inst` are alive.
Outstanding(inst) ==
  BagCardinality([b \in BorrowsOf(inst) |-> CopiesIn(b, views)])

\* `&self`: a shared borrow of self is granted unless a unique borrow is alive.
CanBorrowShared(inst) == \A b \in BorrowsOf(inst) : ~b.s.mut

\* A receiver `&self` where `&mut self` is meant.
CanBorrowMutAsShared(inst) == \A b \in BorrowsOf(inst) : ~b.s.mut

\* `&mut self`: a unique borrow of self is granted only when no borrow is alive.
CanBorrowMut(inst) == BorrowsOf(inst) = {}

\* Element j of slice s, read from the storage the slice points into.
\* (-1, no value of T, stands for whatever lies outside that storage.)
Load(s, j) ==
  IF s.off + j \in DOMAIN data[s.base] THEN data[s.base][s.off + j] ELSE -1

\* The storage d after value v is stored at slot k.
Store(d, k, v) == [j \in (DOMAIN d) \cup {k} |-> IF j = k THEN v ELSE d[j]]

Init ==
  /\ shape \in {n \in Lens : n <= MaxLen}
  /\ ctor \in [Insts -> {"default", "literal"}]
  /\ data \in [Insts -> ArrayType(shape)]
  /\ \A x \in Insts : ctor[x] = "default" => data[x] = DefaultArray(shape)
  /\ views = EmptyBag
  /\ hist = NoWrite
  /\ panicked = "none"

\* A call of slice() on instance inst.
Slice(inst) ==
  /\ panicked = "none"
  /\ BagCardinality(views) < MaxViews
  /\ CanBorrowShared(inst)
  /\ LET r == slice(inst, shape)
     IN  IF r = Panic
         THEN /\ panicked' = "slice"
              /\ views' = views
         ELSE /\ views' = views (+) SetToBag({Borrow(inst, r)})
              /\ panicked' = panicked
  /\ UNCHANGED <<shape, ctor, data, hist>>

\* A call of slice_mut() on instance inst.
SliceMut(inst) ==
  /\ panicked = "none"
  /\ BagCardinality(views) < MaxViews
  /\ CanBorrowMut(inst)
  /\ LET r == slice_mut(inst, shape)
     IN  IF r = Panic
         THEN /\ panicked' = "slice_mut"
              /\ views' = views
         ELSE /\ views' = views (+) SetToBag({Borrow(inst, r)})
              /\ panicked' = panicked
  /\ UNCHANGED <<shape, ctor, data, hist>>

\* The borrow b ends and its slice is dropped.
Release(b) ==
  /\ panicked = "none"
  /\ b \in BagToSet(views)
  /\ views' = views (-) SetToBag({b})
  /\ UNCHANGED <<shape, ctor, data, hist, panicked>>

\* `s[i] = v` through the unique slice of borrow b: bounds-checked against
\* the length of the slice.
Write(b, i, v) ==
  /\ panicked = "none"
  /\ b \in BagToSet(views)
  /\ b.s.mut
  /\ IF i < b.s.len
     THEN /\ data' = [data EXCEPT ![b.s.base] = Store(@, b.s.off + i, v)]
          /\ hist' = [owner |-> b.of, i |-> i, v |-> v, before |-> data]
          /\ panicked' = panicked
     ELSE /\ panicked' = "index"
          /\ UNCHANGED <<data, hist>>
  /\ UNCHANGED <<shape, ctor, views>>

Next ==
  \/ \E x \in Insts : Slice(x)
  \/ \E x \in Insts : SliceMut(x)
  \/ \E b \in BagToSet(views) : Release(b)
  \/ \E b \in BagToSet(views), i \in 0 .. MaxLen, v \in Items : Write(b, i, v)

Spec == Init /\ [][Next]_vars

\* Every supported shape, each instance built from T::default().
InitLens ==
  /\ shape \in Lens
  /\ ctor = [x \in Insts |-> "default"]
  /\ data = [x \in Insts |-> DefaultArray(shape)]
  /\ views = EmptyBag
  /\ hist = NoWrite
  /\ panicked = "none"

NextLens ==
  \/ \E x \in Insts : Slice(x)
  \/ \E x \in Insts : SliceMut(x)
  \/ \E b \in BagToSet(views) : Release(b)

SpecLens == InitLens /\ [][NextLens]_vars

----------------------------------------------------------------------------
\* The shared and the unique borrows of inst that are alive.
SharedOf(inst) == {b \in BorrowsOf(inst) : ~b.s.mut}
UniqueOf(inst) == {b \in BorrowsOf(inst) : b.s.mut}

\* The slots a consumer addresses: 0 .. CAPACITY - 1.
Slots == 0 .. (CAPACITY(shape) - 1)

\* C1: after any sequence of slice()/slice_mut() calls and stores through a
\* unique slice, every slice returned by slice() has length CAPACITY exactly,
\* the storage keeps exactly CAPACITY slots, and the capacity of the instance
\* never changes.
C1_SliceLenIsCapacity ==
  [][ /\ shape' = shape
      /\ \A x \in Insts :
           /\ Cardinality(DOMAIN data'[x]) = CAPACITY(shape)
           /\ \A b \in SharedOf(x)' : b.s.len = CAPACITY(shape) ]_vars

C1_Witness ==
  /\ shape = MaxLen
  /\ hist # NoWrite
  /\ \E b \in SharedOf(hist.owner) : b.s.len = shape

\* C2: every slice returned by slice_mut() has length CAPACITY exactly (stated on
\* the unique slices alone); no store through it lands on an index >= CAPACITY
\* and the number of slots of the storage stays CAPACITY.
C2_SliceMutLenIsCapacity ==
  /\ \A x \in Insts :
       /\ \A b \in UniqueOf(x) : b.s.len = CAPACITY(shape)
       /\ DOMAIN data[x] = Slots
  /\ hist # NoWrite => hist.i \in Slots

C2_Witness ==
  /\ shape >= 1
  /\ hist # NoWrite
  /\ panicked = "index"
  /\ \E x \in Insts : UniqueOf(x) # {}

\* C3: after the store of v at slot i through the slice of slice_mut(), a slice
\* obtained from slice() afterwards reads v at slot i and, at every other slot,
\* the value held before the store.
C3_ReadAfterWrite ==
  hist # NoWrite =>
    \A b \in SharedOf(hist.owner) :
      \A j \in Slots :
        Load(b.s, j) = IF j = hist.i THEN hist.v ELSE hist.before[hist.owner][j]

C3_Witness ==
  /\ hist # NoWrite
  /\ hist.i = 2
  /\ hist.v = 7
  /\ hist.before[hist.owner] = DefaultArray(shape)
  /\ SharedOf(hist.owner) # {}

\* C4: a live unique borrow of an instance is the only live borrow of that
\* instance; shared borrows may coexist with each other.
C4_Aliasing ==
  \A x \in Insts :
    /\ UniqueOf(x) # {} => Outstanding(x) = 1
    /\ (panicked = "none" /\ UniqueOf(x) = {} /\ BagCardinality(views) < MaxViews)
         => ENABLED Slice(x)

C4_Witness ==
  /\ UniqueOf("a") # {}
  /\ SharedOf("b") # {}
  /\ hist # NoWrite

\* C5: a store through the unique slice of one instance leaves every slot of
\* the other instance, as read through its slice(), unchanged.
C5_Independent ==
  [][ \A b \in BagToSet(views), i \in 0 .. MaxLen, v \in Items :
        Write(b, i, v) =>
          \A y \in Insts \ {b.of} :
            \A j \in Slots :
              Load(slice(y, shape), j)' = Load(slice(y, shape), j) ]_vars

C5_Witness ==
  /\ hist # NoWrite
  /\ hist.owner = "b"
  /\ data["b"] # hist.before["b"]
  /\ data["a"] = hist.before["a"]
  /\ data["a"] # data["b"]

\* C6: a call of slice() or slice_mut() always returns a slice; none panics.
C6_Total ==
  [][ \A x \in Insts :
        (Slice(x) \/ SliceMut(x)) =>
          /\ panicked' = "none"
          /\ Outstanding(x)' = Outstanding(x) + 1 ]_vars

C6_Witness ==
  /\ panicked = "none"
  /\ UniqueOf("a") # {}
  /\ Outstanding("b") = 1
  /\ SharedOf("b") # {}

\* C7: for the shape [T; 0], CAPACITY is 0, slice() and slice_mut() can be
\* called, do not panic, and return slices of length 0.
C7_ZeroLen ==
  shape = 0 =>
    /\ CAPACITY(shape) = 0
    /\ panicked \notin {"slice", "slice_mut"}
    /\ \A b \in BagToSet(views) : b.s.len = 0
    /\ (views = EmptyBag /\ panicked = "none") =>
         \A x \in Insts : (ENABLED Slice(x)) /\ (ENABLED SliceMut(x))

C7_Witness ==
  /\ shape = 0
  /\ UniqueOf("a") # {}
  /\ SharedOf("b") # {}

\* C8 as claimed: before any store, every slot read through slice() holds the
\* default value, whatever constructed the instance.
C8_AlwaysDefault ==
  hist = NoWrite =>
    \A x \in Insts :
      \A b \in SharedOf(x) :
        /\ b.s.len = CAPACITY(shape)
        /\ \A j \in Slots : Load(b.s, j) = Default

\* C8, amended: before any store, slice() reads CAPACITY slots that each hold a
\* value of the element type, and the default value in each when the instance
\* was built from T::default().
C8_DefaultWhenDefaultBuilt ==
  hist = NoWrite =>
    \A x \in Insts :
      \A b \in SharedOf(x) :
        /\ b.s.len = CAPACITY(shape)
        /\ \A j \in Slots :
             /\ Load(b.s, j) \in Items
             /\ ctor[x] = "default" => Load(b.s, j) = Default

C8_Witness ==
  /\ shape = MaxLen
  /\ hist = NoWrite
  /\ ctor["a"] = "default"
  /\ SharedOf("a") # {}

\* C9: a call of slice(), alone or with other shared borrows alive, changes no
\* slot and not the capacity, and every live slice of slice() reads the slots of
\* the instance in storage order.
C9_SliceNoEffect ==
  [][ \A x \in Insts :
        Slice(x) =>
          /\ data' = data
          /\ shape' = shape
          /\ \A b \in SharedOf(x)' :
               \A j \in Slots : Load(b.s, j)' = data[x][j] ]_vars

C9_Witness ==
  /\ \E b \in SharedOf("b") : CopiesIn(b, views) = 2
  /\ data["a"] # data["b"]
  /\ \E j \in Slots, k \in Slots : data["b"][j] # data["b"][k]

\* The sizes as the claim lists them.
ClaimedLens ==
  {0} \cup (1 .. 33) \cup {64, 128, 256, 512, 1024, 2048, 4096}

\* C10: the conformances are exactly those of sizes 0, 1..33, 64, 128, 256, 512,
\* 1024, 2048 and 4096 (34 and 100 have none), and CAPACITY of [T; N] is N, its
\* number of slots.
C10_Sizes ==
  /\ Lens = ClaimedLens
  /\ 34 \notin Lens /\ 100 \notin Lens
  /\ shape \in ClaimedLens
  /\ \A x \in Insts : CAPACITY(shape) = Cardinality(DOMAIN data[x])

C10_Witness ==
  /\ shape = 4096
  /\ SharedOf("a") # {}
  /\ UniqueOf("b") # {}

====
